---- MODULE Spec2Model ----
(***************************************************************************)
(* A model of psbt_guide (src/src/main.rs): a command-line program that    *)
(* talks JSON-RPC to a Bitcoin Core node.  The module models               *)
(*   - serde_json values and the typed decoding of a response's "result",  *)
(*   - send_rpc_request, the one HTTP exchange every procedure goes        *)
(*     through, with the environment lookups that precede it,              *)
(*   - the six PSBT stage functions, and                                   *)
(*   - main, which lists the wallet's unspent outputs and funds a PSBT     *)
(*     from the output at index 1.                                         *)
(* Spec is the program as it runs (main).  SpecStages applies the stage    *)
(* functions, which main does not all reach, to inputs drawn from small    *)
(* sets, in any order, the way a caller of these functions could.          *)
(***************************************************************************)
EXTENDS Integers, Sequences, FiniteSets, TLC

VARIABLES
    env,        \* the environment variables that are set (after dotenv)
    pc,         \* the process: "start", "loop" (in main's for), "done", "panicked"
    utxos,      \* main's local `utxos` once decoded and unwrapped
    index,      \* main's loop index (0-based, as enumerate() counts)
    rpc_log,    \* main's send_rpc_request invocations so far, in order
    last,       \* the most recent exchange: a stage call or main's listunspent
    collected,  \* caller of the stages: PSBTs returned by successful sign calls
    finalized,  \* caller of the stages: the latest finalize result it was handed
    rpc_issued  \* some request has been posted since the process started

vars == <<env, pc, utxos, index, rpc_log, last, collected, finalized, rpc_issued>>

(***************************************************************************)
(* Bounds of the model.                                                    *)
(***************************************************************************)
\* The longest list of unspent outputs the node answers listunspent with.
MaxUtxos == 3

(***************************************************************************)
(* serde_json::Value                                                       *)
(***************************************************************************)
JNull == [k |-> "null"]
JStr(s) == [k |-> "str", s |-> s]
\* An integer within -2^31 .. 2^31-1 (the integers TLC computes with).
JInt(n) == [k |-> "int", n |-> n]
\* An integer of magnitude 2^32 or more, named by its literal.
JBigInt(x) == [k |-> "bigint", x |-> x]
\* A number with a fractional part, named by its literal.
JFloat(x) == [k |-> "float", x |-> x]
JBool(b) == [k |-> "bool", b |-> b]
\* f is a function from the member names to their values.
JObj(f) == [k |-> "obj", f |-> f]
\* a is the sequence of elements.
JArr(a) == [k |-> "arr", a |-> a]

\* value[key]: serde_json's Index<&str> gives Null for a missing key and for
\* a value that is not an object; it never panics on a shared borrow.
Index(value, key) ==
    IF value.k = "obj" /\ key \in DOMAIN value.f THEN value.f[key] ELSE JNull

(***************************************************************************)
(* The Rust types the program decodes into.                                *)
(***************************************************************************)
TString == [t |-> "String"]
TBool == [t |-> "bool"]
TU32 == [t |-> "u32"]
TI32 == [t |-> "i32"]
TF32 == [t |-> "f32"]
TVec(e) == [t |-> "Vec", of |-> e]
TOption(e) == [t |-> "Option", of |-> e]
TStruct(fields) == [t |-> "Struct", fields |-> fields]
Field(name, ty) == [name |-> name, ty |-> ty]

UnspentTxOutputs ==
    TStruct(<< Field("txid", TString), Field("vout", TU32),
               Field("address", TString), Field("label", TString),
               Field("scriptPubKey", TString), Field("amount", TF32),
               Field("confirmations", TU32), Field("spendable", TBool),
               Field("solvable", TBool), Field("desc", TString),
               Field("parent_descs", TVec(TString)), Field("safe", TBool) >>)

Psbt ==
    TStruct(<< Field("psbt", TString), Field("fee", TF32),
               Field("changepos", TI32) >>)

WalletProcessPsbt ==
    TStruct(<< Field("psbt", TString), Field("complete", TBool) >>)

FinalizedPsbtResponse ==
    TStruct(<< Field("hex", TString), Field("complete", TBool) >>)

\* Option<T>
None == [some |-> FALSE]
Some(x) == [some |-> TRUE, v |-> x]

\* Result of a conversion: the value, or a serde error.
DeOk(x) == [ok |-> TRUE, val |-> x]
DeErr == [ok |-> FALSE]

(***************************************************************************)
(* serde_json::from_value::<T>: a string only from a JSON string, a bool   *)
(* only from a JSON bool, u32 and i32 only from an integer in range (a    *)
(* JInt is within i32, within u32 when not negative; a JBigInt is in       *)
(* neither), f32 from any number; a Vec from an array whose elements all   *)
(* convert; an                                                             *)
(* Option from null (None) or from whatever the inner type converts        *)
(* (Some); a derived struct from an object holding every field (members    *)
(* it does not know are ignored) or from an array of exactly its fields    *)
(* in order.                                                               *)
(***************************************************************************)
RECURSIVE from_value(_, _)
from_value(ty, value) ==
    CASE ty.t = "String" ->
            IF value.k = "str" THEN DeOk(value.s) ELSE DeErr
      [] ty.t = "bool" ->
            IF value.k = "bool" THEN DeOk(value.b) ELSE DeErr
      [] ty.t = "u32" ->
            IF value.k = "int" /\ value.n >= 0
            THEN DeOk(value.n) ELSE DeErr
      [] ty.t = "i32" ->
            IF value.k = "int" THEN DeOk(value.n) ELSE DeErr
      [] ty.t = "f32" ->
            IF value.k \in {"int", "bigint", "float"} THEN DeOk(value) ELSE DeErr
      [] ty.t = "Vec" ->
            IF value.k = "arr"
               /\ \A i \in 1..Len(value.a) : from_value(ty.of, value.a[i]).ok
            THEN DeOk([i \in 1..Len(value.a) |-> from_value(ty.of, value.a[i]).val])
            ELSE DeErr
      [] ty.t = "Option" ->
            IF value.k = "null" THEN DeOk(None)
            ELSE IF from_value(ty.of, value).ok
                 THEN DeOk(Some(from_value(ty.of, value).val))
                 ELSE DeErr
      [] ty.t = "Struct" ->
            LET n == Len(ty.fields)
                names == {ty.fields[i].name : i \in 1..n}
                tyOf(nm) == (CHOOSE i \in 1..n : ty.fields[i].name = nm)
            IN  IF value.k = "obj"
                   /\ \A i \in 1..n :
                        /\ ty.fields[i].name \in DOMAIN value.f
                        /\ from_value(ty.fields[i].ty, value.f[ty.fields[i].name]).ok
                THEN DeOk([nm \in names |->
                            from_value(ty.fields[tyOf(nm)].ty, value.f[nm]).val])
                ELSE IF value.k = "arr" /\ Len(value.a) = n
                        /\ \A i \in 1..n : from_value(ty.fields[i].ty, value.a[i]).ok
                THEN DeOk([nm \in names |->
                            from_value(ty.fields[tyOf(nm)].ty, value.a[tyOf(nm)]).val])
                ELSE DeErr

\* deserialize_response::<T>(response): the "result" member converted to T,
\* a conversion error turned into None by .ok().
deserialize_response(ty, response) ==
    LET json_response == Index(response, "result")
        deserialized == from_value(ty, json_response)
    IN  IF deserialized.ok THEN Some(deserialized.val) ELSE None

(***************************************************************************)
(* The process environment.  dotenv().ok() loads .env once at the start    *)
(* of main and ignores a failure; nothing sets a variable afterwards, so   *)
(* `env` never changes.  Each variable that is set has one fixed value.    *)
(***************************************************************************)
RpcVars == {"RPC_HOST", "RPC_USER", "RPC_PASSWORD"}
PsbtVars == {"IFEANYI_WALLET_PSBT", "CODEPLANET_WALLET_PSBT"}
ConfigVars == RpcVars \cup PsbtVars

EnvVal(name) ==
    CASE name = "RPC_HOST" -> "http://127.0.0.1:18443"
      [] name = "RPC_USER" -> "user"
      [] name = "RPC_PASSWORD" -> "password"
      [] name = "IFEANYI_WALLET_PSBT" -> "psbtIfeanyi"
      [] name = "CODEPLANET_WALLET_PSBT" -> "psbtCodeplanet"

\* Result<T, Box<dyn Error>>, and a panic, which unwinds out of main.
Ok(x) == [t |-> "Ok", v |-> x]
Err(e) == [t |-> "Err", e |-> e]
Panic(msg) == [t |-> "Panic", msg |-> msg]

(***************************************************************************)
(* What the node and the network may do with one posted request: the send  *)
(* fails, the body that comes back is not JSON, or a JSON value arrives.   *)
(* The HTTP status is not looked at.                                       *)
(***************************************************************************)
SendFails == [t |-> "send_err", e |-> "error sending request"]
BodyNotJson == [t |-> "body_err", e |-> "error decoding response body"]
Json(value) == [t |-> "json", v |-> value]

(***************************************************************************)
(* send_rpc_request(method, params, wallet_request), answered by `answer`. *)
(* The record is the invocation: its arguments, the requests it posted,    *)
(* and what it returned.                                                   *)
(***************************************************************************)
\* A routing slip: every request goes to the wallet path.
RpcUrlAlwaysWallet(wallet_request) ==
    [base |-> EnvVal("RPC_HOST"), path |-> "/wallet/codeplanet"]

RpcUrl(wallet_request) ==
    IF wallet_request
    THEN [base |-> EnvVal("RPC_HOST"), path |-> "/wallet/codeplanet"]
    ELSE [base |-> EnvVal("RPC_HOST"), path |-> ""]

HttpRequest(method, params, wallet_request) ==
    [ url |-> RpcUrl(wallet_request),
      content_type |-> "text/plain",
      authorization |-> [scheme |-> "Basic",
                         base64 |-> <<EnvVal("RPC_USER"), ":", EnvVal("RPC_PASSWORD")>>],
      body |-> [jsonrpc |-> "1.0", id |-> "curltest",
                method |-> method, params |-> params] ]

\* A transport that sends again when the send failed.
PostedWithRetry(method, params, wallet_request, answer) ==
    IF answer.t = "send_err"
    THEN << HttpRequest(method, params, wallet_request),
            HttpRequest(method, params, wallet_request) >>
    ELSE << HttpRequest(method, params, wallet_request) >>

\* The requests one invocation posts once its configuration is read.
Posted(method, params, wallet_request, answer) ==
    << HttpRequest(method, params, wallet_request) >>

send_rpc_request(method, params, wallet_request, answer) ==
    LET call(posted, res) ==
            [method |-> method, params |-> params,
             wallet_request |-> wallet_request, posted |-> posted, res |-> res]
    IN  IF "RPC_HOST" \notin env
        THEN call(<<>>, Panic("RPC_HOST not found in environment"))
        ELSE IF "RPC_USER" \notin env
        THEN call(<<>>, Panic("RPC_USER not found in environment"))
        ELSE IF "RPC_PASSWORD" \notin env
        THEN call(<<>>, Panic("RPC_PASSWORD not found in environment"))
        ELSE LET posted == Posted(method, params, wallet_request, answer)
             IN  CASE answer.t = "send_err" -> call(posted, Err(answer.e))
                   [] answer.t = "body_err" -> call(posted, Err(answer.e))
                   [] answer.t = "json" -> call(posted, Ok(answer.v))

(***************************************************************************)
(* The stage functions.  Each returns the record of one application: the   *)
(* send_rpc_request invocations it made, whether and what it decoded, and  *)
(* its Result (or the panic that ended it).                                *)
(***************************************************************************)
NotTried == [tried |-> FALSE]
Tried(opt) == [tried |-> TRUE, opt |-> opt]
UnwrapNone == "called Option::unwrap() on a None value"

Application(stage, log, decoded, ret) ==
    [stage |-> stage, log |-> log, decoded |-> decoded, ret |-> ret]

\* match response { Ok(v) => Ok(deserialize_response(&v).unwrap()),
\*                   Err(e) => Err(e) }, the tail every stage ends with.
MatchResponse(stage, response, ty) ==
    CASE response.res.t = "Panic" ->
            Application(stage, <<response>>, NotTried, response.res)
      [] response.res.t = "Err" ->
            Application(stage, <<response>>, NotTried, Err(response.res.e))
      [] response.res.t = "Ok" ->
            LET decoded == deserialize_response(ty, response.res.v)
            IN  Application(stage, <<response>>, Tried(decoded),
                            IF decoded.some THEN Ok(decoded.v) ELSE Panic(UnwrapNone))

create_psbt(input, output, answer) ==
    LET inputs == << JObj([txid |-> JStr(input.txid), vout |-> JInt(input.vout)]) >>
        body == JArr(<< JArr(inputs), JArr(output) >>)
        response == send_rpc_request("walletcreatefundedpsbt", body, TRUE, answer)
    IN  MatchResponse("create", response, Psbt)

join_psbt(answer) ==
    IF "IFEANYI_WALLET_PSBT" \notin env \/ "CODEPLANET_WALLET_PSBT" \notin env
    THEN Application("join", <<>>, NotTried, Panic("User PSBT not found in environment"))
    ELSE LET psbts == JArr(<< JStr(EnvVal("IFEANYI_WALLET_PSBT")),
                              JStr(EnvVal("CODEPLANET_WALLET_PSBT")) >>)
             body == JArr(<< psbts >>)
             response == send_rpc_request("joinpsbts", body, FALSE, answer)
         IN  MatchResponse("join", response, TString)

wallet_process_psbt(psbt, answer) ==
    LET body == JArr(<< JStr(psbt) >>)
        response == send_rpc_request("walletprocesspsbt", body, TRUE, answer)
    IN  MatchResponse("sign", response, WalletProcessPsbt)

combine_psbt(psbt, answer) ==
    LET body == JArr(<< JStr(psbt) >>)
        request_body == JArr(<< body >>)
        response == send_rpc_request("combinepsbt", request_body, FALSE, answer)
    IN  MatchResponse("combine", response, TString)

finalize_psbt(psbt, answer) ==
    LET body == JArr(<< JStr(psbt) >>)
        response == send_rpc_request("finalizepsbt", body, FALSE, answer)
    IN  MatchResponse("finalize", response, FinalizedPsbtResponse)

broadcast_transaction(hex, answer) ==
    LET body == JArr(<< JStr(hex) >>)
        response == send_rpc_request("sendrawtransaction", body, FALSE, answer)
    IN  MatchResponse("broadcast", response, TString)

(***************************************************************************)
(* What the node may answer.  PSBTs, transaction hex and transaction ids   *)
(* are opaque strings to the program; two distinct ones are enough to tell *)
(* them apart.                                                             *)
(***************************************************************************)
Strings == {"pA", "pB"}

Envelope(result) ==
    JObj([result |-> result, error |-> JNull, id |-> JStr("curltest")])
\* The node rejects the call: result is null and error is set.
NodeError ==
    JObj([result |-> JNull,
          error |-> JObj([code |-> JInt(-4), message |-> JStr("rejected")]),
          id |-> JStr("curltest")])
\* An envelope with no result member at all.
NoResult == JObj([error |-> JNull, id |-> JStr("curltest")])
\* A JSON body that is no envelope.
NotAnObject == JStr("Work queue depth exceeded")

StringResults == {JStr(s) : s \in Strings}

PsbtResults ==
    {JObj([psbt |-> JStr("pA"), fee |-> JFloat("0.00000141"), changepos |-> JInt(c)]) :
        c \in {-1, 1}}
    \cup {JObj([psbt |-> JStr("pA"), changepos |-> JInt(1)]),
          JObj([psbt |-> JStr("pA"), fee |-> JInt(0), changepos |-> JFloat("1.5")]),
          JObj([psbt |-> JStr("pA"), fee |-> JInt(0), changepos |-> JBigInt("4294967296")]),
          JArr(<< JStr("pA"), JFloat("0.00000141"), JInt(-1) >>)}

SignResults ==
    {JObj([psbt |-> JStr(s), complete |-> JBool(b)]) : s \in Strings, b \in BOOLEAN}

\* finalizepsbt as typed here, and as Bitcoin Core answers an incomplete
\* PSBT (with psbt in place of hex).
FinalizeResults ==
    {JObj([hex |-> JStr(s), complete |-> JBool(b)]) : s \in Strings, b \in BOOLEAN}
    \cup {JObj([psbt |-> JStr("pA"), complete |-> JBool(FALSE)])}

StageResults ==
    StringResults \cup PsbtResults \cup SignResults \cup FinalizeResults \cup {JInt(7)}

StageAnswers ==
    {SendFails, BodyNotJson}
    \cup {Json(v) : v \in {NotAnObject, NoResult, NodeError}}
    \cup {Json(Envelope(r)) : r \in StageResults}

Utxo(txid, vout) ==
    JObj([txid |-> JStr(txid), vout |-> vout, address |-> JStr("bcrt1qaddr"),
          label |-> JStr(""), scriptPubKey |-> JStr("0014ab"), amount |-> JFloat("1.0"),
          confirmations |-> JInt(101), spendable |-> JBool(TRUE),
          solvable |-> JBool(TRUE), desc |-> JStr("wpkh(...)"),
          parent_descs |-> JArr(<< JStr("wpkh(...)") >>), safe |-> JBool(TRUE)])

UtxoFixtures == {Utxo("aaa", JInt(1)), Utxo("bbb", JInt(0))}

UtxoLists == UNION {[1..n -> UtxoFixtures] : n \in 0..MaxUtxos}

ListResults ==
    {JArr(l) : l \in UtxoLists}
    \cup {JArr(<< Utxo("aaa", JInt(1)), Utxo("ccc", JInt(-1)) >>),
          JArr(<< Utxo("aaa", JInt(1)), JStr("bbb") >>)}

ListAnswers == StageAnswers \cup {Json(Envelope(r)) : r \in ListResults}

\* main's one destination (line 235) and the inputs a caller may fund from.
Output == << JObj("bcrt1qpfk7t93jfl240a4qv78kplqvqntxafg03rx68p" :> JFloat("0.0001")) >>
Inputs == {[txid |-> "aaa", vout |-> 1], [txid |-> "bbb", vout |-> 0]}

(***************************************************************************)
(* The state after process start: main has run nothing yet.                *)
(***************************************************************************)
NoExchange == Application("none", <<>>, NotTried, [t |-> "none"])

Init ==
    /\ env \in SUBSET ConfigVars
    /\ pc = "start"
    /\ utxos = <<>>
    /\ index = 0
    /\ rpc_log = <<>>
    /\ last = NoExchange
    /\ collected = {}
    /\ finalized = None
    /\ rpc_issued = FALSE

\* The requests the invocations of a log put on the wire, in order.
RECURSIVE Wire(_)
Wire(log) ==
    IF log = <<>> THEN <<>> ELSE log[1].posted \o Wire(Tail(log))

(***************************************************************************)
(* main                                                                    *)
(***************************************************************************)
\* Selection slips: the first output instead of the second; every output.
IsSelectedFirst(i) == i = 0
IsSelectedAlways(i) == TRUE

\* `if index == 1`: the unspent output main spends.
IsSelected(i) == i = 1

\* Lines 218-225: listunspent, its decoding into Option<Vec<UnspentTxOutputs>>
\* and the two unwraps that lead into the for loop.
main_listunspent ==
    /\ pc = "start"
    /\ \E answer \in ListAnswers :
        LET response == send_rpc_request("listunspent", JArr(<<>>), TRUE, answer)
            log == << response >>
        IN  /\ rpc_log' = Append(rpc_log, response)
            /\ rpc_issued' = (rpc_issued \/ response.posted # <<>>)
            /\ CASE response.res.t = "Panic" ->
                      /\ last' = Application("listunspent", log, NotTried, response.res)
                      /\ pc' = "panicked"
                      /\ UNCHANGED <<utxos, index>>
                 [] response.res.t = "Err" ->
                      /\ last' = Application("listunspent", log, NotTried, response.res)
                      /\ pc' = "done"
                      /\ UNCHANGED <<utxos, index>>
                 [] response.res.t = "Ok" ->
                      LET decoded == deserialize_response(TOption(TVec(UnspentTxOutputs)),
                                                          response.res.v)
                      IN  IF decoded.some /\ decoded.v.some
                          THEN /\ last' = Application("listunspent", log, Tried(decoded),
                                                      Ok(decoded.v.v))
                               /\ utxos' = decoded.v.v
                               /\ index' = 0
                               /\ pc' = "loop"
                          ELSE /\ last' = Application("listunspent", log, Tried(decoded),
                                                      Panic(UnwrapNone))
                               /\ pc' = "panicked"
                               /\ UNCHANGED <<utxos, index>>
    /\ UNCHANGED <<env, collected, finalized>>

\* Lines 225-246: one iteration of the for loop.
main_iterate ==
    /\ pc = "loop"
    /\ index < Len(utxos)
    /\ IF IsSelected(index)
       THEN \E answer \in StageAnswers :
              LET utxo == utxos[index + 1]
                  input == [txid |-> utxo.txid, vout |-> utxo.vout]
                  created == create_psbt(input, Output, answer)
              IN  /\ rpc_log' = rpc_log \o created.log
                  /\ rpc_issued' = (rpc_issued \/ Wire(created.log) # <<>>)
                  /\ last' = created
                  /\ IF created.ret.t = "Panic"
                     THEN pc' = "panicked" /\ UNCHANGED index
                     ELSE pc' = pc /\ index' = index + 1
       ELSE /\ index' = index + 1
            /\ UNCHANGED <<pc, rpc_log, rpc_issued, last>>
    /\ UNCHANGED <<env, utxos, collected, finalized>>

\* The loop is exhausted and main returns.
main_exit ==
    /\ pc = "loop"
    /\ index = Len(utxos)
    /\ pc' = "done"
    /\ UNCHANGED <<env, utxos, index, rpc_log, last, collected, finalized, rpc_issued>>

Next == main_listunspent \/ main_iterate \/ main_exit

Spec == Init /\ [][Next]_vars

(***************************************************************************)
(* The stage functions applied by a caller.  A panic aborts the process;   *)
(* after an Ok or an Err the caller may call again.  The caller keeps the  *)
(* PSBTs that sign calls returned and the latest finalize result, and      *)
(* hands combine one of the former and broadcast the hex of the latter.    *)
(***************************************************************************)
Returned(app) ==
    /\ last' = app
    /\ rpc_issued' = (rpc_issued \/ Wire(app.log) # <<>>)
    /\ pc' = IF app.ret.t = "Panic" THEN "panicked" ELSE pc
    /\ collected' = IF app.stage = "sign" /\ app.ret.t = "Ok"
                    THEN collected \cup {app.ret.v.psbt} ELSE collected
    /\ finalized' = IF app.stage = "finalize" /\ app.ret.t = "Ok"
                    THEN Some(app.ret.v) ELSE finalized
    /\ UNCHANGED <<env, utxos, index, rpc_log>>

call_create_psbt ==
    /\ pc = "start"
    /\ \E input \in Inputs, answer \in StageAnswers :
          Returned(create_psbt(input, Output, answer))

call_join_psbt ==
    /\ pc = "start"
    /\ \E answer \in StageAnswers : Returned(join_psbt(answer))

call_wallet_process_psbt ==
    /\ pc = "start"
    /\ \E psbt \in Strings, answer \in StageAnswers :
          Returned(wallet_process_psbt(psbt, answer))

call_combine_psbt ==
    /\ pc = "start"
    /\ \E psbt \in collected, answer \in StageAnswers :
          Returned(combine_psbt(psbt, answer))

call_finalize_psbt ==
    /\ pc = "start"
    /\ \E psbt \in Strings, answer \in StageAnswers :
          Returned(finalize_psbt(psbt, answer))

call_broadcast_transaction ==
    /\ pc = "start"
    /\ finalized.some
    /\ \E answer \in StageAnswers :
          Returned(broadcast_transaction(finalized.v.hex, answer))

NextStages ==
    \/ call_create_psbt
    \/ call_join_psbt
    \/ call_wallet_process_psbt
    \/ call_combine_psbt
    \/ call_finalize_psbt
    \/ call_broadcast_transaction

SpecStages == Init /\ [][NextStages]_vars

(***************************************************************************)
(* Properties                                                              *)
(***************************************************************************)
StageNames == {"create", "join", "sign", "combine", "finalize", "broadcast"}

Methods(log) == [i \in 1..Len(log) |-> log[i].method]

IsPrefix(s, t) == Len(s) <= Len(t) /\ \A i \in 1..Len(s) : s[i] = t[i]

\* The application was ended by .expect(..) on an unset environment variable.
ConfigAbort(app) == app.ret.t = "Panic" /\ app.ret.msg # UnwrapNone

\* The transport handed the application a JSON response.
TransportOk(app) == Len(app.log) = 1 /\ app.log[1].res.t = "Ok"

Creates == {i \in 1..Len(rpc_log) : rpc_log[i].method = "walletcreatefundedpsbt"}

\* C1: a request of sendrawtransaction is posted only when the finalize result
\* the caller holds has complete = true, and a finalize call whose decoded
\* result has complete = false returns an error instead of Ok.
BroadcastOnlyAfterCompleteFinalize ==
    /\ (last.stage = "broadcast" /\ Wire(last.log) # <<>>)
          => (finalized.some /\ finalized.v.complete)
    /\ (last.stage = "finalize" /\ last.decoded.tried /\ last.decoded.opt.some
          /\ ~last.decoded.opt.v.complete)
          => last.ret.t = "Err"

\* C2: a run of main that ends normally on one unspent output, with every
\* request answered successfully, has invoked create, join, sign, sign,
\* combine, finalize, broadcast in that order and ends with broadcast's Ok.
PipelineRunsAllStagesInOrder ==
    (/\ pc = "done"
     /\ Len(rpc_log) >= 1
     /\ \A i \in 1..Len(rpc_log) : rpc_log[i].res.t = "Ok"
     /\ Len(utxos) = 1)
    => /\ Tail(Methods(rpc_log)) =
             << "walletcreatefundedpsbt", "joinpsbts", "walletprocesspsbt",
                "walletprocesspsbt", "combinepsbt", "finalizepsbt",
                "sendrawtransaction" >>
       /\ last.stage = "broadcast"
       /\ last.ret.t = "Ok"

\* C3: a stage whose transport succeeded but whose response holds no result of
\* the expected shape returns an error to its caller; it does not panic.
MalformedResultIsRecoverableError ==
    (/\ last.stage \in StageNames
     /\ TransportOk(last)
     /\ last.decoded.tried
     /\ ~last.decoded.opt.some)
    => (last.ret.t = "Err" /\ pc # "panicked")

\* C4: whenever deserialize_response ran on a response whose result member is
\* absent or null, it returned None, whatever the target type.
DecoderAbsentOnNullResult ==
    (last.decoded.tried /\ Index(last.log[1].res.v, "result").k = "null")
    => ~last.decoded.opt.some

\* C5: a process that aborts because a configuration value is missing has not
\* posted any RPC request before.
NoRpcBeforeConfigurationAbort ==
    (last.stage \in StageNames /\ ConfigAbort(last)) => ~rpc_issued

\* C6: a stage call makes one send_rpc_request invocation and that invocation
\* posts one request, never more; the only calls that post none are those the
\* missing-configuration panic aborts before the send.  A transport failure
\* comes back as the stage's Err with the same error, after that one request
\* and without a decode.
OneRoundTripPerStageCall ==
    last.stage \in StageNames =>
        /\ Len(last.log) <= 1
        /\ Len(Wire(last.log)) = IF ConfigAbort(last) THEN 0 ELSE 1
        /\ last.ret.t \in {"Ok", "Err"} => Len(last.log) = 1
        /\ \A i \in 1..Len(last.log) :
              last.log[i].res.t = "Err" =>
                 /\ last.ret = Err(last.log[i].res.e)
                 /\ ~last.decoded.tried
                 /\ Len(last.log[i].posted) = 1

\* C6 witness: a sign call whose send failed, back with the error.
SignTransportFailureReturned ==
    /\ last.stage = "sign"
    /\ last.ret.t = "Err"
    /\ Len(Wire(last.log)) = 1

\* C7: every posted request goes to the wallet path exactly when the
\* invocation is wallet-scoped; create and sign are wallet-scoped, join,
\* combine, finalize and broadcast are not.
RoutingMatchesScope ==
    \A i \in 1..Len(last.log) :
        LET call == last.log[i]
        IN  /\ call.wallet_request = (last.stage \in {"create", "sign"})
            /\ ~call.wallet_request =
                  (last.stage \in {"join", "combine", "finalize", "broadcast"})
            /\ \A j \in 1..Len(call.posted) :
                  /\ call.posted[j].url.base = EnvVal("RPC_HOST")
                  /\ call.posted[j].url.path =
                        IF call.wallet_request THEN "/wallet/codeplanet" ELSE ""

\* C7 witness: a join request on the wire, at the node's default path.
JoinPostedToDefaultPath ==
    /\ last.stage = "join"
    /\ Wire(last.log) # <<>>
    /\ Wire(last.log)[1].url.path = ""

\* C8: a combine request sent once the caller holds the signed PSBTs of more
\* than one party carries every one of them.
CombineCarriesEverySigned ==
    (last.stage = "combine" /\ Wire(last.log) # <<>> /\ Cardinality(collected) > 1)
    => LET psbts == Wire(last.log)[1].body.params.a[1].a
       IN  {psbts[i].s : i \in 1..Len(psbts)} = collected

MainInvokesListThenCreateOnly ==
    /\ IsPrefix(Methods(rpc_log), << "listunspent", "walletcreatefundedpsbt" >>)
    /\ IsPrefix([i \in 1..Len(Wire(rpc_log)) |-> Wire(rpc_log)[i].body.method],
                << "listunspent", "walletcreatefundedpsbt" >>)
    /\ pc # "start" => (Len(rpc_log) >= 1 /\ rpc_log[1].method = "listunspent")
    /\ Len(rpc_log) = 2 => (rpc_log[1].res.t = "Ok" /\ Len(rpc_log[1].posted) = 1)
    /\ \A i \in 1..Len(rpc_log) :
          rpc_log[i].method \notin {"joinpsbts", "walletprocesspsbt", "combinepsbt",
                                    "finalizepsbt", "sendrawtransaction"}

\* C10 witness: main ended after listunspent and one walletcreatefundedpsbt.
MainEndedAfterCreate ==
    /\ pc = "done"
    /\ Methods(rpc_log) = << "listunspent", "walletcreatefundedpsbt" >>

====
